---- MODULE Spec2Model ----
(***************************************************************************)
(* Model of the scheduling core of ugc-video-manager: the upload queue     *)
(* (QueueManager over DatabaseManager), its three storage backends         *)
(* (direct Postgres, Supabase REST, in-memory), the scheduler loop of      *)
(* VideoProcessor and the operator routes that write queue items.          *)
(***************************************************************************)
EXTENDS Integers, Sequences, FiniteSets, TLC

\* ------------------------------------------------------------------ bounds
MaxItems == 2
MaxTime == 1
MaxCount == 2
MaxHistory == 2
MaxClaims == 2

\* --------------------------------------------------------------- constants
\* Python None for scheduled_time, and for the result of get_next_video.
NoTime == -1
NoEntry == 0
\* settings.min_file_size_mb / max_file_size_mb; the default of
\* max_daily_uploads for a channel record without the field.
min_file_size_mb == 10
max_file_size_mb == 150
DefaultMaxDaily == 3

Null == "null"
Backends == {"pg", "rest", "mem"}
Workers == {"w1", "w2"}
Tasks == {"t1", "t2"}
Fingerprints == {"F", "G"}
Statuses == {"pending", "processing", "ready", "uploaded", "failed"}
ChannelIds == {"chA", "chB"}
Priorities == {50, 60}
FileSizes == {5, 50, 200}
Messages == {Null, "err"}
Titles == {"", "t"}
Descriptions == {"", "d"}

\* The youtube_channels table: the core only reads it.
youtube_channels ==
  [c \in ChannelIds |->
     IF c = "chA" THEN [max_daily_uploads |-> 1, is_active |-> TRUE]
                  ELSE [max_daily_uploads |-> 2, is_active |-> FALSE]]

\* QueueManager._init_status_transitions
status_transitions ==
  [s \in Statuses |->
     CASE s = "pending"    -> {"processing", "failed"}
       [] s = "processing" -> {"ready", "failed"}
       [] s = "ready"      -> {"uploaded", "failed", "pending"}
       [] s = "uploaded"   -> {}
       [] s = "failed"     -> {"pending"}]

VARIABLES
  backend,          \* which store DatabaseManager._connect selected
  upload_queue,     \* store key -> queue record (table upload_queue / _mem_queue)
  channel_uploads,  \* channel -> today's upload_count (channel_upload_limits)
  upload_history,   \* sequence of upload_history records
  now,              \* the clock read by NOW() / datetime.now()
  pc,               \* worker -> position in process_queue
  entry,            \* worker -> id of the queue_entry it holds
  cur,              \* worker -> status read by _get_current_status
  bg_tasks,         \* ids with a scheduled _simulate_and_mark_ready task
  claims,           \* store key -> get_next_video returns since last pending
  last_call,        \* the operation performed by the last step, for the claims
  processing_cache, \* VideoProcessor.processing_cache: fingerprints in flight
  task_pc,          \* process_video call -> position in the pipeline
  video_hash,       \* process_video call -> fingerprint of its file
  assigned,         \* process_video call -> channel_assignment['channel_id']
  result,           \* process_video call -> outcome of its last run
  task_analysis,    \* process_video call -> analysis_results of its run
  reason,           \* process_video call -> channel_assignment['reason']
  channel_table,    \* youtube_channels rows as the channel matcher reads them
  analysis,         \* analysis_results of the last find_best_channel call
  best,             \* what that call returned: a channel id or Null
  channel_scores,   \* the channel_id -> score dict of that call
  priority_call,    \* the last _calculate_priority call: its argument and result
  app,              \* the entry point that started the services, or Null
  running,          \* self.running / not shutdown_event.is_set()
  maint_pc,         \* position of the _run_maintenance task
  iteration,        \* what the current pass of the maintenance loop has run
  last_iteration,   \* what the last completed pass ran, and its parity
  file_size,        \* path -> size in MB of the file in the watch folder
  processing_files, \* handler.processing_files: paths with a scheduled run
  processed_files,  \* watcher.processed_files: content hashes marked processed
  watch_pc,         \* watcher.process_video call -> its position
  watch_path,       \* watcher.process_video call -> its file_path
  pipeline_calls,   \* content hash -> calls of VideoProcessor.process_video
  queued            \* content hashes whose pipeline run returned success

queue_vars == <<backend, upload_queue, channel_uploads, upload_history, now,
                pc, entry, cur, bg_tasks, claims, last_call>>
pipeline_vars == <<processing_cache, task_pc, video_hash, assigned, result,
                   task_analysis, reason>>

matcher_vars == <<channel_table, analysis, best, channel_scores, priority_call>>
maint_vars == <<app, running, maint_pc, iteration, last_iteration>>
watcher_vars == <<file_size, processing_files, processed_files, watch_pc,
                  watch_path, pipeline_calls, queued>>
shell_vars == <<maint_vars, watcher_vars>>
off_queue_vars == <<pipeline_vars, matcher_vars, shell_vars>>
off_pipeline_vars == <<matcher_vars, shell_vars>>

vars == <<queue_vars, pipeline_vars, matcher_vars, shell_vars>>

\* analysis_results of process_video: None, or a dict with its
\* confidence_score in tenths.
NoResults == [present |-> FALSE, confidence_score |-> 0]
NoAnalysis == [category |-> Null, content_type |-> Null, confidence |-> 0]
NoPriorityCall == [analysis_results |-> NoAnalysis, result |-> 0]

NoCall == [op |-> "none", id |-> 0, status |-> Null, ok |-> TRUE]

Keys == DOMAIN upload_queue

\* The files of the watch folder: video files by their name (the check of
\* settings.is_valid_video_file on path.name passes), in a date folder, each
\* with its own content.  Missing is the size of a file that does not exist.
\* NoIteration is a pass of the maintenance loop that has run no duty yet.
Paths == {"p1", "p2"}
Missing == -1
NoIteration == [purge |-> "none", sweep |-> "none"]

\* The application before its services are started, the watch folder empty
\* and a watcher just constructed.
InitShell ==
  /\ app = Null
  /\ running = FALSE
  /\ maint_pc = "none"
  /\ iteration = NoIteration
  /\ last_iteration = [ran |-> NoIteration, parity |-> 0]
  /\ file_size = [p \in Paths |-> Missing]
  /\ processing_files = {}
  /\ processed_files = {}
  /\ watch_pc = [t \in Tasks |-> "idle"]
  /\ watch_path = [t \in Tasks |-> Null]
  /\ pipeline_calls = [h \in Fingerprints |-> 0]
  /\ queued = {}

\* ------------------------------------------------------------ store layer

\* SQL / PostgREST "WHERE id = ..." over the table.
RowsById(id) == {k \in Keys : upload_queue[k].id = id}

\* dict.update(updates) after updates['updated_at'] = now.
Merge(rec, updates) == ([updated_at |-> now] @@ updates) @@ rec

\* DatabaseManager.update_queue_item: the queue after the call.
UpdateQueueItem(id, updates) ==
  CASE backend = "pg"   -> upload_queue
    [] backend = "rest" ->
         [k \in Keys |-> IF upload_queue[k].id = id
                         THEN Merge(upload_queue[k], updates)
                         ELSE upload_queue[k]]
    [] backend = "mem"  ->
         IF id \in Keys
         THEN [upload_queue EXCEPT ![id] = Merge(upload_queue[id], updates)]
         ELSE upload_queue

\* Whether update_queue_item returned a record (not None).
UpdateQueueItemFound(id) ==
  CASE backend = "pg"   -> FALSE
    [] backend = "rest" -> RowsById(id) # {}
    [] backend = "mem"  -> id \in Keys

\* The claim comparator: a is strictly ahead of b.
Before(a, b) ==
  \/ upload_queue[a].priority > upload_queue[b].priority
  \/ /\ upload_queue[a].priority = upload_queue[b].priority
     /\ upload_queue[a].created_at < upload_queue[b].created_at

\* The rows a query with filter `status` sees (Null: no filter).
Filtered(status) ==
  {k \in Keys : status = Null \/ upload_queue[k].status = status}

\* DatabaseManager.get_queue_items(status, limit=1): the keys that can be
\* items[0].  pg: the method returns [].  rest: ORDER BY priority DESC only,
\* so the order among equal priorities is the database's choice.  mem: a
\* stable sort by (-priority, created_at) of the dict in insertion order.
GetQueueItemsFirst(status) ==
  CASE backend = "pg"   -> {}
    [] backend = "rest" ->
         {k \in Filtered(status) :
            \A j \in Filtered(status) :
               upload_queue[j].priority <= upload_queue[k].priority}
    [] backend = "mem"  ->
         {k \in Filtered(status) :
            \A j \in Filtered(status) \ {k} :
               ~Before(j, k) /\ (Before(k, j) \/ k < j)}

\* check_channel_upload_limit(p_channel_id) of setup_supabase.py.
check_channel_upload_limit(c) ==
  /\ c \in ChannelIds
  /\ youtube_channels[c].is_active
  /\ channel_uploads[c] < youtube_channels[c].max_daily_uploads

\* The WHERE clause of the Postgres query of get_next_video.
PgEligible(k) ==
  /\ upload_queue[k].status = "pending"
  /\ upload_queue[k].channel_id \in ChannelIds
  /\ youtube_channels[upload_queue[k].channel_id].is_active
  /\ (upload_queue[k].scheduled_time = NoTime
        \/ upload_queue[k].scheduled_time <= now)
  /\ check_channel_upload_limit(upload_queue[k].channel_id)

\* ORDER BY priority DESC, created_at ASC LIMIT 1: the rows that can be first.
PgSelectFirst ==
  {k \in Keys : PgEligible(k) /\ \A j \in Keys : PgEligible(j) => ~Before(j, k)}

\* QueueManager._get_current_status: the status found for id, or Null.
\* pg: SELECT by id.  rest/mem: a scan of get_queue_items(limit=100) for a
\* record whose 'id' field equals id (the model holds fewer than 100 items).
GetCurrentStatus(id) ==
  IF RowsById(id) = {} THEN Null
  ELSE upload_queue[CHOOSE k \in RowsById(id) : TRUE].status

\* The check of update_status: the call gets past "Invalid status transition".
TransitionAccepted(current, new_status) ==
  ~(new_status \notin status_transitions[current] /\ new_status # current)

\* The write of update_status once the check passed.
StatusWrite(id, new_status, error_message) ==
  IF backend = "pg"
  THEN [k \in Keys |->
          IF upload_queue[k].id = id
          THEN [upload_queue[k] EXCEPT !.status = new_status,
                                       !.error_message = error_message,
                                       !.updated_at = now]
          ELSE upload_queue[k]]
  ELSE UpdateQueueItem(id, [status |-> new_status,
                            error_message |-> error_message])

\* QueueManager.update_status run without interruption: <<queue after, result>>.
UpdateStatusResult(id, new_status, error_message) ==
  LET current == GetCurrentStatus(id) IN
  IF current = Null THEN <<upload_queue, FALSE>>
  ELSE IF ~TransitionAccepted(current, new_status) THEN <<upload_queue, FALSE>>
  ELSE <<StatusWrite(id, new_status, error_message), TRUE>>

\* The claims counter after a step: reset when an item is moved back to
\* pending, advanced for the item that get_next_video returned (ret, or 0).
ClaimsAfter(newq, ret) ==
  [k \in DOMAIN newq |->
     IF k \notin Keys THEN 0
     ELSE IF newq[k].status = "pending" /\ upload_queue[k].status # "pending" THEN 0
     ELSE IF k = ret /\ claims[k] < MaxClaims THEN claims[k] + 1
     ELSE claims[k]]

KeyOfId(id) == CHOOSE k \in Keys : upload_queue[k].id = id

\* ------------------------------------------------------------------- init

Init ==
  /\ backend \in Backends
  /\ upload_queue = <<>>
  /\ channel_uploads = [c \in ChannelIds |-> 0]
  /\ upload_history = <<>>
  /\ now = 0
  /\ pc = [w \in Workers |-> "idle"]
  /\ entry = [w \in Workers |-> NoEntry]
  /\ cur = [w \in Workers |-> Null]
  /\ bg_tasks = {}
  /\ claims = <<>>
  /\ last_call = NoCall
  /\ processing_cache = {}
  /\ task_pc = [t \in Tasks |-> "idle"]
  /\ video_hash = [t \in Tasks |-> Null]
  /\ assigned = [t \in Tasks |-> Null]
  /\ result = [t \in Tasks |-> Null]
  /\ task_analysis = [t \in Tasks |-> NoResults]
  /\ reason = [t \in Tasks |-> Null]
  /\ channel_table = [c \in ChannelIds |->
                        [channel_type |-> "main", category |-> "general",
                         max_daily_uploads |-> youtube_channels[c].max_daily_uploads,
                         is_active |-> youtube_channels[c].is_active]]
  /\ analysis = NoAnalysis
  /\ best = Null
  /\ channel_scores = <<>>
  /\ priority_call = NoPriorityCall
  /\ InitShell

\* The clock advances.
Tick ==
  /\ now < MaxTime
  /\ now' = now + 1
  /\ UNCHANGED <<backend, upload_queue, channel_uploads, upload_history,
                 pc, entry, cur, bg_tasks, claims>>
  /\ last_call' = NoCall

\* A new record under store key k whose 'id' field is id.
NewRecord(id, size, channel_id, title, description, priority, scheduled_time) ==
  [id |-> id, file_size_mb |-> size, title |-> title, description |-> description,
   status |-> "pending", priority |-> priority,
   channel_id |-> channel_id, scheduled_time |-> scheduled_time,
   error_message |-> Null, created_at |-> now, updated_at |-> now]

Insert(k, rec) ==
  /\ upload_queue' = (k :> rec) @@ upload_queue
  /\ claims' = ClaimsAfter((k :> rec) @@ upload_queue, 0)

NextKey ==
  IF Keys = {} THEN 1 ELSE (CHOOSE k \in Keys : \A j \in Keys : j <= k) + 1

\* QueueManager.add_to_queue.  The file-size checks return None early; title
\* and description are stored as given.  pg
\* and rest store the record under the generated queue_id; the in-memory
\* DatabaseManager.add_to_queue stores it under a second uuid (qid) while
\* the record keeps 'id' = queue_id (modelled as -qid).
QM_AddToQueue(size, channel_id, title, description, priority, scheduled_time) ==
  /\ NextKey <= MaxItems
  /\ ~(size > max_file_size_mb)
  /\ ~(size < min_file_size_mb)
  /\ LET k == NextKey
         id == IF backend = "mem" THEN -k ELSE k
     IN Insert(k, NewRecord(id, size, channel_id, title, description,
                            priority, scheduled_time))
  /\ UNCHANGED <<backend, channel_uploads, upload_history, now,
                 pc, entry, cur, bg_tasks>>
  /\ last_call' = NoCall

\* DatabaseManager.check_channel_limit
check_channel_limit(c) ==
  CASE backend = "pg"   -> TRUE
    [] backend = "rest" -> check_channel_upload_limit(c)
    [] backend = "mem"  ->
         channel_uploads[c] <
           (IF c \in ChannelIds THEN youtube_channels[c].max_daily_uploads
                                ELSE DefaultMaxDaily)

\* POST /api/queue/ (routes/queue.py add_to_queue).  QueueItemCreate wants a
\* title and a description of at least one character and a file_size_mb >= 0;
\* the channel, when given, must exist and be under its limit;
\* DatabaseManager.add_to_queue returns None under pg (500, nothing stored)
\* and generates the id otherwise.
Route_AddToQueue(size, channel_id, title, description, priority, scheduled_time) ==
  /\ NextKey <= MaxItems
  /\ size >= 0 /\ title # "" /\ description # ""
  /\ channel_id # Null => (channel_id \in ChannelIds /\ check_channel_limit(channel_id))
  /\ backend # "pg"
  /\ Insert(NextKey, NewRecord(NextKey, size, channel_id, title, description,
                               priority, scheduled_time))
  /\ UNCHANGED <<backend, channel_uploads, upload_history, now,
                 pc, entry, cur, bg_tasks>>
  /\ last_call' = NoCall

\* The SQL function increment_upload_count(p_channel_id): an upsert that adds
\* one to today's row of the channel, with no check against the capacity.
\* (A NULL channel makes a row that is no channel's counter.)
increment_upload_count(c) ==
  IF c \in ChannelIds THEN [channel_uploads EXCEPT ![c] = @ + 1]
  ELSE channel_uploads

\* DatabaseManager.increment_upload_count: returns at once under pg; the
\* SQL function and the in-memory counter add one unconditionally.
IncrementedUploads(c) ==
  IF backend = "pg" THEN channel_uploads ELSE increment_upload_count(c)

IncrementUploadCount(c) ==
  /\ backend # "pg"
  /\ channel_uploads[c] < MaxCount
  /\ channel_uploads' = IncrementedUploads(c)
  /\ UNCHANGED <<backend, upload_queue, upload_history, now,
                 pc, entry, cur, bg_tasks, claims>>
  /\ last_call' = NoCall

\* ------------------------------------------------- scheduler (process_queue)

\* The row get_next_video may select: the Postgres query, or items[0] of
\* get_queue_items(status='pending', limit=1).
SelectFirst == IF backend = "pg" THEN PgSelectFirst ELSE GetQueueItemsFirst("pending")

\* get_next_video, in-memory path.  No await of this path suspends, so the
\* read, the update and the return are one step of the event loop.
GetNextVideoMem(w) ==
  /\ backend = "mem"
  /\ pc[w] = "idle"
  /\ \E k \in SelectFirst :
       LET id == upload_queue[k].id
           newq == UpdateQueueItem(id, [status |-> "processing"])
       IN /\ upload_queue' = newq
          /\ claims' = ClaimsAfter(newq, k)
          /\ entry' = [entry EXCEPT ![w] = id]
  /\ pc' = [pc EXCEPT ![w] = "got"]
  /\ UNCHANGED <<backend, channel_uploads, upload_history, now, cur, bg_tasks>>
  /\ last_call' = NoCall

\* A get_next_video that counts the upload against the channel when it
\* selects the entry.
GetNextVideoSelectCounting(w) ==
  /\ backend \in {"pg", "rest"}
  /\ pc[w] = "idle"
  /\ \E k \in SelectFirst :
       /\ entry' = [entry EXCEPT ![w] = upload_queue[k].id]
       /\ channel_uploads' = increment_upload_count(upload_queue[k].channel_id)
  /\ pc' = [pc EXCEPT ![w] = "selected"]
  /\ UNCHANGED <<backend, upload_queue, upload_history, now, cur, bg_tasks, claims>>
  /\ last_call' = NoCall

\* get_next_video, first statement under pg (SELECT ... FOR UPDATE SKIP
\* LOCKED, run by execute_query on a connection of its own that commits and
\* closes, so the row lock ends with the statement) and first request under
\* rest (get_queue_items).
GetNextVideoSelect(w) ==
  /\ backend \in {"pg", "rest"}
  /\ pc[w] = "idle"
  /\ \E k \in SelectFirst : entry' = [entry EXCEPT ![w] = upload_queue[k].id]
  /\ pc' = [pc EXCEPT ![w] = "selected"]
  /\ UNCHANGED <<backend, upload_queue, channel_uploads, upload_history, now,
                 cur, bg_tasks, claims>>
  /\ last_call' = NoCall

\* get_next_video, rest path: the second request, update_queue_item by id,
\* whatever the row's status is by now; the entry is returned.
GetNextVideoUpdateRest(w) ==
  /\ backend = "rest"
  /\ pc[w] = "selected"
  /\ LET newq == UpdateQueueItem(entry[w], [status |-> "processing"])
     IN /\ upload_queue' = newq
        /\ claims' = ClaimsAfter(newq, KeyOfId(entry[w]))
  /\ pc' = [pc EXCEPT ![w] = "got"]
  /\ UNCHANGED <<backend, channel_uploads, upload_history, now, entry, cur, bg_tasks>>
  /\ last_call' = NoCall

\* update_status called by a worker, first half: _get_current_status.  Under
\* pg it is the call of get_next_video (to 'processing') or of
\* _simulate_upload (to 'ready'); under rest only the latter.
UpdateStatusRead(w) ==
  /\ \/ backend = "pg" /\ pc[w] \in {"selected", "got"}
     \/ backend = "rest" /\ pc[w] = "got"
  /\ cur' = [cur EXCEPT ![w] = GetCurrentStatus(entry[w])]
  /\ pc' = [pc EXCEPT ![w] = IF pc[w] = "selected" THEN "claim_read" ELSE "ready_read"]
  /\ UNCHANGED <<backend, upload_queue, channel_uploads, upload_history, now,
                 entry, bg_tasks, claims>>
  /\ last_call' = NoCall

\* update_status called by a worker, second half: the transition check on the
\* status read before, then the write.  get_next_video ignores the result and
\* returns the entry; _simulate_upload ends the loop iteration.
UpdateStatusWrite(w) ==
  /\ pc[w] \in {"claim_read", "ready_read"}
  /\ LET new_status == IF pc[w] = "claim_read" THEN "processing" ELSE "ready"
         ret == IF pc[w] = "claim_read" THEN KeyOfId(entry[w]) ELSE 0
         newq == IF cur[w] # Null /\ TransitionAccepted(cur[w], new_status)
                 THEN StatusWrite(entry[w], new_status, Null)
                 ELSE upload_queue
     IN /\ upload_queue' = newq
        /\ claims' = ClaimsAfter(newq, ret)
  /\ pc' = [pc EXCEPT ![w] = IF pc[w] = "claim_read" THEN "got" ELSE "idle"]
  /\ entry' = [entry EXCEPT ![w] = IF pc[w] = "claim_read" THEN @ ELSE NoEntry]
  /\ cur' = [cur EXCEPT ![w] = Null]
  /\ UNCHANGED <<backend, channel_uploads, upload_history, now, bg_tasks>>
  /\ last_call' = NoCall

\* _simulate_upload in the in-memory mode: update_status(id, 'ready') in one
\* step of the event loop.
SimulateUploadMem(w) ==
  /\ backend = "mem"
  /\ pc[w] = "got"
  /\ LET newq == UpdateStatusResult(entry[w], "ready", Null)[1]
     IN /\ upload_queue' = newq
        /\ claims' = ClaimsAfter(newq, 0)
  /\ pc' = [pc EXCEPT ![w] = "idle"]
  /\ entry' = [entry EXCEPT ![w] = NoEntry]
  /\ UNCHANGED <<backend, channel_uploads, upload_history, now, cur, bg_tasks>>
  /\ last_call' = NoCall

ActiveChannels == {c \in ChannelIds : youtube_channels[c].is_active}

Create ==
  \/ \E size \in FileSizes, c \in ChannelIds, p \in Priorities, t \in {NoTime, 1} :
       QM_AddToQueue(size, c, "t", "d", p, t)
  \/ \E c \in ChannelIds, p \in Priorities, t \in {NoTime, 1} :
       Route_AddToQueue(50, c, "t", "d", p, t)

Next ==
  \/ Create /\ UNCHANGED off_queue_vars
  \/ Tick /\ UNCHANGED off_queue_vars
  \/ \E c \in ActiveChannels : IncrementUploadCount(c) /\ UNCHANGED off_queue_vars
  \/ \E w \in Workers :
       \/ GetNextVideoMem(w) /\ UNCHANGED off_queue_vars
       \/ GetNextVideoSelect(w) /\ UNCHANGED off_queue_vars
       \/ GetNextVideoUpdateRest(w) /\ UNCHANGED off_queue_vars
       \/ UpdateStatusRead(w) /\ UNCHANGED off_queue_vars
       \/ UpdateStatusWrite(w) /\ UNCHANGED off_queue_vars
       \/ SimulateUploadMem(w) /\ UNCHANGED off_queue_vars

\* The scheduler specification: producers, the clock and the worker loops.
Spec == Init /\ [][Next]_vars

\* ------------------------------------------ operations called by operators

ItemIds == {upload_queue[k].id : k \in Keys}

Call(op, id, status, ok) == [op |-> op, id |-> id, status |-> status, ok |-> ok]

\* QueueManager.update_status(queue_id, new_status, error_message), run by a
\* caller that nothing interleaves with.
UpdateStatus(id, new_status, error_message) ==
  /\ LET res == UpdateStatusResult(id, new_status, error_message)
     IN /\ upload_queue' = res[1]
        /\ claims' = ClaimsAfter(res[1], 0)
        /\ last_call' = Call("update_status", id, new_status, res[2])
  /\ UNCHANGED <<backend, channel_uploads, upload_history, now,
                 pc, entry, cur, bg_tasks>>

\* QueueManager.retry_failed(queue_id): update_status(queue_id, "pending", None).
RetryFailed(id) ==
  /\ LET res == UpdateStatusResult(id, "pending", Null)
     IN /\ upload_queue' = res[1]
        /\ claims' = ClaimsAfter(res[1], 0)
        /\ last_call' = Call("retry_failed", id, "pending", res[2])
  /\ UNCHANGED <<backend, channel_uploads, upload_history, now,
                 pc, entry, cur, bg_tasks>>

Faults == {"none", "select", "insert", "increment"}

\* QueueManager.mark_as_uploaded under pg, inside DatabaseManager.transaction:
\* update_status (result ignored), SELECT of the row (raises when absent),
\* INSERT into upload_history, increment_upload_count, commit.  A fault in a
\* statement raises and the transaction rolls back; a fault of the increment
\* is swallowed by _increment_upload_count, but the server has aborted the
\* transaction and the commit leaves nothing behind.
\* <<queue, history, uploads, may return True, may return False>>.
MarkAsUploadedPg(id, fault) ==
  LET res == UpdateStatusResult(id, "uploaded", Null)
      rows == RowsById(id)
      nothing == <<upload_queue, upload_history, channel_uploads>>
  IN CASE rows = {} \/ fault \in {"select", "insert"} -> nothing \o <<FALSE, TRUE>>
       [] rows # {} /\ fault = "increment" -> nothing \o <<TRUE, TRUE>>
       [] rows # {} /\ fault = "none" ->
            LET c == upload_queue[CHOOSE k \in rows : TRUE].channel_id
            IN << res[1],
                  Append(upload_history, [queue_id |-> id, channel_id |-> c]),
                  increment_upload_count(c), TRUE, FALSE >>

\* QueueManager.mark_as_uploaded without a DSN (rest, in-memory): the
\* transaction is a no-op, update_status writes through update_queue_item,
\* and execute_query returns no rows, so "Queue entry not found" is raised
\* before the history insert and the increment: the call returns False.
MarkAsUploadedNoDsn(id, fault) ==
  << UpdateStatusResult(id, "uploaded", Null)[1], upload_history, channel_uploads,
     FALSE, TRUE >>

MarkAsUploadedResult(id, fault) ==
  IF backend = "pg" THEN MarkAsUploadedPg(id, fault) ELSE MarkAsUploadedNoDsn(id, fault)

MarkAsUploaded(id, fault) ==
  LET r == MarkAsUploadedResult(id, fault) IN
  /\ Len(r[2]) <= MaxHistory
  /\ \A c \in ChannelIds : r[3][c] <= MaxCount
  /\ upload_queue' = r[1]
  /\ claims' = ClaimsAfter(r[1], 0)
  /\ upload_history' = r[2]
  /\ channel_uploads' = r[3]
  /\ \E ok \in BOOLEAN :
       /\ (ok => r[4]) /\ (~ok => r[5])
       /\ last_call' = Call("mark_as_uploaded", id, "uploaded", ok)
  /\ UNCHANGED <<backend, now, pc, entry, cur, bg_tasks>>

\* The update_data of a request: the fields that are not None.
UpdateData(status, error_message) ==
  [f \in (IF status # Null THEN {"status"} ELSE {})
           \cup (IF error_message # Null THEN {"error_message"} ELSE {}) |->
     IF f = "status" THEN status ELSE error_message]

\* PATCH /api/queue/{queue_id} (routes/queue.py update_queue_item): 404 unless
\* get_queue_items(limit=100) holds a record with this id; then
\* DatabaseManager.update_queue_item with every field of the body that is not
\* None, the status among them; 500 when that returns None.
PatchQueueItem(id, status, error_message) ==
  /\ backend # "pg"
  /\ id \in ItemIds
  /\ LET newq == UpdateQueueItem(id, UpdateData(status, error_message))
     IN /\ upload_queue' = newq
        /\ claims' = ClaimsAfter(newq, 0)
        /\ last_call' = Call("patch", id, status, UpdateQueueItemFound(id))
  /\ UNCHANGED <<backend, channel_uploads, upload_history, now,
                 pc, entry, cur, bg_tasks>>

\* POST /api/queue/{queue_id}/process: update_queue_item(status=processing),
\* 404 when it returns None, else the background task is scheduled.
ProcessQueueItem(id) ==
  /\ LET newq == UpdateQueueItem(id, [status |-> "processing"])
     IN /\ upload_queue' = newq
        /\ claims' = ClaimsAfter(newq, 0)
  /\ bg_tasks' = IF UpdateQueueItemFound(id) THEN bg_tasks \cup {id} ELSE bg_tasks
  /\ last_call' = Call("process", id, "processing", UpdateQueueItemFound(id))
  /\ UNCHANGED <<backend, channel_uploads, upload_history, now, pc, entry, cur>>

\* _simulate_and_mark_ready: after the sleep, update_queue_item(status=ready).
SimulateAndMarkReady(id) ==
  /\ id \in bg_tasks
  /\ LET newq == UpdateQueueItem(id, [status |-> "ready"])
     IN /\ upload_queue' = newq
        /\ claims' = ClaimsAfter(newq, 0)
  /\ bg_tasks' = bg_tasks \ {id}
  /\ last_call' = Call("mark_ready", id, "ready", TRUE)
  /\ UNCHANGED <<backend, channel_uploads, upload_history, now, pc, entry, cur>>

\* POST /api/admin/queue/{queue_id}/assign: update_queue_item with the
\* channel and, unless keep_status, status = pending.
AssignQueueItem(id, channel_id, keep_status) ==
  /\ LET updates == IF keep_status THEN [channel_id |-> channel_id]
                    ELSE [channel_id |-> channel_id, status |-> "pending"]
         newq == UpdateQueueItem(id, updates)
     IN /\ upload_queue' = newq
        /\ claims' = ClaimsAfter(newq, 0)
  /\ last_call' = Call("assign", id, IF keep_status THEN Null ELSE "pending",
                       UpdateQueueItemFound(id))
  /\ UNCHANGED <<backend, channel_uploads, upload_history, now,
                 pc, entry, cur, bg_tasks>>

\* GET /api/queue/{queue_id} (routes/queue.py get_queue_item): the item is
\* looked for in get_queue_items(limit=1), i.e. in the first row of the whole
\* queue; 404 when that row has another id or there is none.
GetQueueItem(id) ==
  /\ \E found \in BOOLEAN :
       /\ found <=> (\E k \in GetQueueItemsFirst(Null) : upload_queue[k].id = id)
       /\ last_call' = Call("get", id, Null, found)
  /\ UNCHANGED <<backend, upload_queue, channel_uploads, upload_history, now,
                 pc, entry, cur, bg_tasks, claims>>

\* Items for the operator specifications: default priority, no schedule.
CreateDefault ==
  \/ \E size \in FileSizes, c \in ActiveChannels :
       QM_AddToQueue(size, c, "t", "d", 50, NoTime)
  \/ \E c \in ActiveChannels : Route_AddToQueue(50, c, "t", "d", 50, NoTime)

NextStore ==
  \/ CreateDefault /\ UNCHANGED off_queue_vars
  \/ Tick /\ UNCHANGED off_queue_vars
  \/ \E c \in ActiveChannels : IncrementUploadCount(c) /\ UNCHANGED off_queue_vars
  \/ \E id \in ItemIds, s \in Statuses, m \in Messages :
       UpdateStatus(id, s, m) /\ UNCHANGED off_queue_vars
  \/ \E id \in ItemIds, f \in Faults : MarkAsUploaded(id, f) /\ UNCHANGED off_queue_vars

\* The store specification: QueueManager's status and publish operations.
SpecStore == Init /\ [][NextStore]_vars

NextApi ==
  \/ CreateDefault /\ UNCHANGED off_queue_vars
  \/ \E id \in ItemIds, s \in Statuses :
       UpdateStatus(id, s, Null) /\ UNCHANGED off_queue_vars
  \/ \E id \in ItemIds : RetryFailed(id) /\ UNCHANGED off_queue_vars
  \/ \E id \in ItemIds, s \in Statuses \cup {Null}, m \in Messages :
       PatchQueueItem(id, s, m) /\ UNCHANGED off_queue_vars
  \/ \E id \in ItemIds : ProcessQueueItem(id) /\ UNCHANGED off_queue_vars
  \/ \E id \in ItemIds : GetQueueItem(id) /\ UNCHANGED off_queue_vars
  \/ \E id \in ItemIds : SimulateAndMarkReady(id) /\ UNCHANGED off_queue_vars
  \/ \E id \in ItemIds, c \in ActiveChannels, keep \in BOOLEAN :
       AssignQueueItem(id, c, keep) /\ UNCHANGED off_queue_vars

\* The operator specification: the routes that write queue items.
SpecApi == Init /\ [][NextApi]_vars

\* ------------------------------------------------------ the create paths

\* Requests with any file size, title and description, on either path.
NextCreate ==
  \/ \E size \in FileSizes, c \in ActiveChannels, title \in Titles,
        description \in Descriptions, p \in Priorities :
       QM_AddToQueue(size, c, title, description, p, NoTime) /\ UNCHANGED off_queue_vars
  \/ \E size \in FileSizes, c \in ActiveChannels, title \in Titles,
        description \in Descriptions, p \in Priorities :
       Route_AddToQueue(size, c, title, description, p, NoTime) /\ UNCHANGED off_queue_vars

\* The create specification: both creation paths over every input.
SpecCreate == Init /\ [][NextCreate]_vars

\* --------------------------------------- the scheduler loop, run for ever

\* process_queue when get_next_video returns None: the loop sleeps 30 s.
GetNextVideoNone(w) ==
  /\ pc[w] = "idle"
  /\ SelectFirst = {}
  /\ pc' = [pc EXCEPT ![w] = "sleep"]
  /\ UNCHANGED <<backend, upload_queue, channel_uploads, upload_history, now,
                 entry, cur, bg_tasks, claims>>
  /\ last_call' = NoCall

\* The sleep ends and the loop calls get_next_video again.
WakeUp(w) ==
  /\ pc[w] = "sleep"
  /\ pc' = [pc EXCEPT ![w] = "idle"]
  /\ UNCHANGED <<backend, upload_queue, channel_uploads, upload_history, now,
                 entry, cur, bg_tasks, claims>>
  /\ last_call' = NoCall

\* One step of worker w's process_queue loop.
WorkerStep(w) ==
  \/ GetNextVideoMem(w) /\ UNCHANGED off_queue_vars
  \/ GetNextVideoSelect(w) /\ UNCHANGED off_queue_vars
  \/ GetNextVideoUpdateRest(w) /\ UNCHANGED off_queue_vars
  \/ UpdateStatusRead(w) /\ UNCHANGED off_queue_vars
  \/ UpdateStatusWrite(w) /\ UNCHANGED off_queue_vars
  \/ SimulateUploadMem(w) /\ UNCHANGED off_queue_vars
  \/ GetNextVideoNone(w) /\ UNCHANGED off_queue_vars
  \/ WakeUp(w) /\ UNCHANGED off_queue_vars

NextLive ==
  \/ Create /\ UNCHANGED off_queue_vars
  \/ \E w \in Workers : WorkerStep(w)

\* The scheduler loops under the event loop's scheduling: a worker whose loop
\* can take a step eventually takes one.
SpecLive ==
  Init /\ [][NextLive]_vars /\ \A w \in Workers : WF_vars(WorkerStep(w))

\* ------------------------------------- the pipeline (VideoProcessor.process_video)

Outcomes == {"Already processing", "Low analysis confidence", "No channel available",
             "Failed to add to queue", "exception", "success"}

\* A process_video whose cleanup runs on the success path only.
FinallyOnSuccess(hash, outcome) ==
  IF outcome = "success" THEN processing_cache \ {hash} ELSE processing_cache

\* The finally clause of process_video, entered on every return and every
\* exception once video_hash is bound: the hash is discarded from the cache.
Finally(hash, outcome) == processing_cache \ {hash}

\* ChannelMatcher._get_available_channels over the channel table: the SQL and
\* the REST listing keep the active channels under their limit, the in-memory
\* fallback returns every channel.
AvailableChannelIds ==
  IF backend = "mem" THEN ChannelIds
  ELSE {c \in ChannelIds : check_channel_upload_limit(c)}

\* process_video up to its first await.  A hash found in processing_cache
\* returns "Already processing" through the finally clause; otherwise the hash
\* is added and the analysis is awaited.
ProcessVideoStart(t, hash) ==
  /\ task_pc[t] = "idle"
  /\ IF hash \in processing_cache
     THEN /\ processing_cache' = Finally(hash, "Already processing")
          /\ result' = [result EXCEPT ![t] = "Already processing"]
          /\ UNCHANGED <<task_pc, video_hash>>
     ELSE /\ processing_cache' = processing_cache \cup {hash}
          /\ task_pc' = [task_pc EXCEPT ![t] = "analyze"]
          /\ video_hash' = [video_hash EXCEPT ![t] = hash]
          /\ result' = [result EXCEPT ![t] = Null]
  /\ UNCHANGED <<assigned, task_analysis, reason, queue_vars>>

\* process_video on a path whose stat() fails: _get_file_hash raises inside
\* the try, the except clause records the error and returns the result, and
\* the finally clause then reads video_hash, which was never bound: the
\* UnboundLocalError replaces the return and reaches the caller.
ProcessVideoMissing(t) ==
  /\ task_pc[t] = "idle"
  /\ result' = [result EXCEPT ![t] = "UnboundLocalError"]
  /\ UNCHANGED <<processing_cache, task_pc, video_hash, assigned, task_analysis,
                 reason, queue_vars>>

\* A return or an exception of process_video after the hash was added.
Return(t, outcome) ==
  /\ processing_cache' = Finally(video_hash[t], outcome)
  /\ task_pc' = [task_pc EXCEPT ![t] = "idle"]
  /\ video_hash' = [video_hash EXCEPT ![t] = Null]
  /\ assigned' = [assigned EXCEPT ![t] = Null]
  /\ result' = [result EXCEPT ![t] = outcome]
  /\ task_analysis' = [task_analysis EXCEPT ![t] = NoResults]
  /\ reason' = [reason EXCEPT ![t] = Null]

Continue(t, next_pc, channel_id) ==
  /\ task_pc' = [task_pc EXCEPT ![t] = next_pc]
  /\ assigned' = [assigned EXCEPT ![t] = channel_id]
  /\ UNCHANGED <<processing_cache, video_hash, result, task_analysis>>

\* What analyze_video can return: None, or a dict whose confidence_score is
\* below or at the threshold 0.3.
AnalysisResults ==
  {NoResults} \cup {[present |-> TRUE, confidence_score |-> c] : c \in {2, 3}}

\* Step 1: the await of analyze_video returns analysis_results or raises.
AnalyzeVideo(t, raises, analysis_results) ==
  /\ task_pc[t] = "analyze"
  /\ IF raises THEN Return(t, "exception")
     ELSE /\ task_pc' = [task_pc EXCEPT ![t] = "check"]
          /\ task_analysis' = [task_analysis EXCEPT ![t] = analysis_results]
          /\ UNCHANGED <<processing_cache, video_hash, assigned, result, reason>>
  /\ UNCHANGED queue_vars

\* A check that lets every dict through.
AbsentOnly(analysis_results) == ~analysis_results.present

\* not analysis_results or analysis_results.get("confidence_score", 0) < 0.3
LowConfidence(analysis_results) ==
  \/ ~analysis_results.present
  \/ analysis_results.confidence_score < 3

\* The test on analysis_results: a low confidence returns before step 2.
CheckConfidence(t) ==
  /\ task_pc[t] = "check"
  /\ IF LowConfidence(task_analysis[t])
     THEN Return(t, "Low analysis confidence")
     ELSE Continue(t, "match", Null) /\ UNCHANGED reason
  /\ UNCHANGED queue_vars

\* DatabaseManager.get_available_channels as the hint lookup calls it: the
\* REST client lists the active channels under their limit; without a client
\* the in-memory channel list is returned whole.
DbAvailableChannelIds ==
  IF backend = "rest" THEN {c \in ChannelIds : check_channel_upload_limit(c)}
  ELSE ChannelIds

\* ChannelMatcher._get_channel_details: a SELECT through execute_query, which
\* returns no row when there is no DSN.
GetChannelDetails(channel_id) ==
  IF backend = "pg" THEN channel_id ELSE Null

\* ChannelMatcher.assign_channel for a find_best_channel that returned best:
\* None when best is None or its details are not found.
AssignChannel(best_channel) ==
  IF best_channel = Null THEN Null ELSE GetChannelDetails(best_channel)

\* Step 2: a channel_hint naming a channel of get_available_channels is taken
\* as the assignment (reason folder_hint); otherwise assign_channel decides,
\* find_best_channel returning a listed channel or None.
MatchChannel(t, channel_hint, best_channel) ==
  /\ task_pc[t] = "match"
  /\ best_channel \in AvailableChannelIds \cup {Null}
  /\ LET chosen == IF channel_hint \in DbAvailableChannelIds
                   THEN channel_hint ELSE Null
     IN IF chosen # Null
        THEN /\ Continue(t, "generate", chosen)
             /\ reason' = [reason EXCEPT ![t] = "folder_hint"]
        ELSE IF AssignChannel(best_channel) = Null
        THEN Return(t, "No channel available")
        ELSE /\ Continue(t, "generate", AssignChannel(best_channel))
             /\ UNCHANGED reason
  /\ UNCHANGED queue_vars

\* Steps 3 to 5: SEO content, product matching, affiliate link; none touches
\* the cache or the queue, any of them may raise.
GenerateContent(t, outcome) ==
  /\ task_pc[t] = "generate"
  /\ IF outcome = "ok" THEN Continue(t, "enqueue", assigned[t]) /\ UNCHANGED reason
     ELSE Return(t, "exception")
  /\ UNCHANGED queue_vars

\* Step 6: QueueManager.add_to_queue with the assigned channel, the generated
\* title and description and the default schedule; a returned id is success,
\* None is "Failed to add to queue".
EnqueueVideo(t, size, priority) ==
  /\ task_pc[t] = "enqueue"
  /\ IF size > max_file_size_mb \/ size < min_file_size_mb
     THEN /\ Return(t, "Failed to add to queue")
          /\ UNCHANGED queue_vars
     ELSE /\ QM_AddToQueue(size, assigned[t], "t", "d", priority, NoTime)
          /\ Return(t, "success")

NextPipeline ==
  \/ \E t \in Tasks, h \in Fingerprints : ProcessVideoStart(t, h) /\ UNCHANGED off_pipeline_vars
  \/ \E t \in Tasks : ProcessVideoMissing(t) /\ UNCHANGED off_pipeline_vars
  \/ \E t \in Tasks, raises \in BOOLEAN, a \in AnalysisResults :
       AnalyzeVideo(t, raises, a) /\ UNCHANGED off_pipeline_vars
  \/ \E t \in Tasks : CheckConfidence(t) /\ UNCHANGED off_pipeline_vars
  \/ \E t \in Tasks, hint \in ChannelIds \cup {Null}, c \in ChannelIds \cup {Null} :
       MatchChannel(t, hint, c) /\ UNCHANGED off_pipeline_vars
  \/ \E t \in Tasks, o \in {"ok", "raise"} : GenerateContent(t, o) /\ UNCHANGED off_pipeline_vars
  \/ \E t \in Tasks, size \in FileSizes, p \in Priorities : EnqueueVideo(t, size, p) /\ UNCHANGED off_pipeline_vars

\* The pipeline specification: concurrent process_video calls on one
\* VideoProcessor.
SpecPipeline == Init /\ [][NextPipeline]_vars

\* ----------------------------------------- the channel matcher (ChannelMatcher)

\* Scores are kept in thousandths: the addends in hundredths, the confidence
\* in tenths.  MinScore is the threshold 0.3 of find_best_channel.
MinScore == 300

ChannelTypes == {"main", "sub"}
ChannelCategories == {"technology", "lifestyle", "gaming"}
VideoCategories == {"technology", "unknown"}
ContentTypes == {"tutorial", "unknown"}
Confidences == {2, 10}
MaxDailyChoices == {2, 8}

\* ChannelMatcher._initialize_category_mapping, for the categories above.
category_mapping(video_category) ==
  CASE video_category = "technology" -> {"technology", "tech", "gadget", "review"}
    [] video_category = "unknown"    -> {"general", "lifestyle", "misc"}
    [] OTHER                         -> {"general", "lifestyle"}

\* ChannelMatcher._initialize_content_weights, in hundredths.
content_type_weights(content_type, channel_type) ==
  CASE content_type = "tutorial" /\ channel_type = "main" -> 80
    [] content_type = "tutorial" /\ channel_type = "sub"  -> 100
    [] OTHER                                              -> 50

Min(a, b) == IF a < b THEN a ELSE b

\* today_uploads of a listed channel, and what _score_channels calls
\* remaining_uploads.
TodayUploads(c) == channel_uploads[c]
RemainingUploads(c) == channel_table[c].max_daily_uploads - TodayUploads(c)

\* A tie-breaker that looks at nothing but the list position.
FirstListed(order, score) == order[1]

\* str.lower() on the category strings in use.
Lower(str) ==
  CASE str = "Technology" -> "technology"
    [] OTHER              -> str

\* A category rule that never tells an equal category from a related one.
CategoryScoreRelatedOnly(category, video_category) ==
  IF Lower(category) \in category_mapping(Lower(video_category)) THEN 60
  ELSE IF Lower(category) \in {"general", "lifestyle", "misc"} THEN 30
  ELSE 0

\* The category match score of _score_channels, in hundredths: the channel
\* category is looked up in the related list of the video category first.
CategoryScore(category, video_category) ==
  LET channel_category == Lower(category)
      matching_categories == category_mapping(Lower(video_category))
  IN IF channel_category \in matching_categories
     THEN (IF channel_category = Lower(video_category) THEN 100 ELSE 60)
     ELSE IF channel_category \in {"general", "lifestyle", "misc"} THEN 30
     ELSE 0

\* _score_channels for one channel, in thousandths.
ScoreChannel(c, video_category, content_type, confidence) ==
  LET channel_type == channel_table[c].channel_type
      category_score == CategoryScore(channel_table[c].category, video_category)
      capacity_bonus == Min(50, RemainingUploads(c) * 10)
      type_bonus == IF channel_type = "main" THEN 30 ELSE 10
  IN (category_score + content_type_weights(content_type, channel_type)
        + capacity_bonus + type_bonus) * confidence

\* The channels _get_available_channels lists: the SQL and the REST path keep
\* the active channels with today_uploads < max_daily_uploads, the in-memory
\* fallback of DatabaseManager.get_available_channels returns every channel.
GetAvailableChannels ==
  IF backend = "mem" THEN ChannelIds
  ELSE {c \in ChannelIds :
          channel_table[c].is_active
            /\ TodayUploads(c) < channel_table[c].max_daily_uploads}

\* ORDER BY c.channel_type ASC, remaining DESC: a is listed strictly before b.
SqlBefore(a, b) ==
  \/ channel_table[a].channel_type = "main" /\ channel_table[b].channel_type = "sub"
  \/ /\ channel_table[a].channel_type = channel_table[b].channel_type
     /\ RemainingUploads(a) > RemainingUploads(b)

\* The orders in which the store may list the available channels: the SQL
\* order under pg (rows equal under ORDER BY in any order), any order for the
\* REST query, which has no order clause, and for the dict of the in-memory
\* store.
ListOrders ==
  LET S == GetAvailableChannels
      n == Cardinality(S)
  IN {order \in [1..n -> S] :
        /\ \A i, j \in 1..n : i # j => order[i] # order[j]
        /\ backend = "pg" => \A i, j \in 1..n : i < j => ~SqlBefore(order[j], order[i])}

\* max(channel_scores.items(), key=score): the first listed channel among
\* those of the greatest score.
FirstMax(order, score) ==
  LET top == {i \in DOMAIN order :
                \A j \in DOMAIN order : score[order[j]] <= score[order[i]]}
  IN order[CHOOSE i \in top : \A j \in top : i <= j]

\* find_best_channel on a given listing: None for an empty list or a best
\* score not above the threshold.
BestChannel(order, video_category, content_type, confidence) ==
  IF Len(order) = 0 THEN Null
  ELSE LET score == [c \in ChannelIds |->
                       ScoreChannel(c, video_category, content_type, confidence)]
           channel_id == FirstMax(order, score)
       IN IF score[channel_id] > MinScore THEN channel_id ELSE Null

\* ChannelMatcher.find_best_channel(analysis_results).
FindBestChannel(video_category, content_type, confidence) ==
  /\ \E order \in ListOrders :
       best' = BestChannel(order, video_category, content_type, confidence)
  /\ channel_scores' = [c \in GetAvailableChannels |->
                          ScoreChannel(c, video_category, content_type, confidence)]
  /\ analysis' = [category |-> video_category, content_type |-> content_type,
                  confidence |-> confidence]
  /\ UNCHANGED <<channel_table, priority_call, queue_vars, pipeline_vars,
                 shell_vars>>

\* The channel tables and counts the matcher is run on.
InitMatcher ==
  /\ backend \in Backends
  /\ upload_queue = <<>>
  /\ channel_uploads \in [ChannelIds -> 0..MaxCount]
  /\ upload_history = <<>>
  /\ now = 0
  /\ pc = [w \in Workers |-> "idle"]
  /\ entry = [w \in Workers |-> NoEntry]
  /\ cur = [w \in Workers |-> Null]
  /\ bg_tasks = {}
  /\ claims = <<>>
  /\ last_call = NoCall
  /\ processing_cache = {}
  /\ task_pc = [t \in Tasks |-> "idle"]
  /\ video_hash = [t \in Tasks |-> Null]
  /\ assigned = [t \in Tasks |-> Null]
  /\ result = [t \in Tasks |-> Null]
  /\ task_analysis = [t \in Tasks |-> NoResults]
  /\ reason = [t \in Tasks |-> Null]
  /\ channel_table \in
       [ChannelIds -> [channel_type : ChannelTypes, category : ChannelCategories,
                       max_daily_uploads : MaxDailyChoices, is_active : BOOLEAN]]
  /\ analysis = NoAnalysis
  /\ best = Null
  /\ channel_scores = <<>>
  /\ priority_call = NoPriorityCall
  /\ InitShell

NextMatcher ==
  \E video_category \in VideoCategories, content_type \in ContentTypes,
     confidence \in Confidences :
    FindBestChannel(video_category, content_type, confidence)

\* The matcher specification: find_best_channel over every channel table.
SpecMatcher == InitMatcher /\ [][NextMatcher]_vars

\* Inputs for the scoring rules: category strings inside and outside the
\* related-category table and in mixed case, the capacity and confidence of
\* the documented example.
ScoreCategories == {"technology", "Technology", "lifestyle", "unknown", "music"}
ScoreVideoCategories == {"technology", "unknown", "music"}
ScoreConfidences == {8, 10}
ScoreMaxDaily == 3

InitScore ==
  /\ backend \in Backends
  /\ upload_queue = <<>>
  /\ channel_uploads \in [ChannelIds -> 0..MaxCount]
  /\ upload_history = <<>>
  /\ now = 0
  /\ pc = [w \in Workers |-> "idle"]
  /\ entry = [w \in Workers |-> NoEntry]
  /\ cur = [w \in Workers |-> Null]
  /\ bg_tasks = {}
  /\ claims = <<>>
  /\ last_call = NoCall
  /\ processing_cache = {}
  /\ task_pc = [t \in Tasks |-> "idle"]
  /\ video_hash = [t \in Tasks |-> Null]
  /\ assigned = [t \in Tasks |-> Null]
  /\ result = [t \in Tasks |-> Null]
  /\ task_analysis = [t \in Tasks |-> NoResults]
  /\ reason = [t \in Tasks |-> Null]
  /\ channel_table \in
       [ChannelIds -> [channel_type : ChannelTypes, category : ScoreCategories,
                       max_daily_uploads : {ScoreMaxDaily}, is_active : {TRUE}]]
  /\ analysis = NoAnalysis
  /\ best = Null
  /\ channel_scores = <<>>
  /\ priority_call = NoPriorityCall
  /\ InitShell

NextScore ==
  \E video_category \in ScoreVideoCategories, content_type \in ContentTypes,
     confidence \in ScoreConfidences :
    FindBestChannel(video_category, content_type, confidence)

\* The scoring specification: _score_channels inside find_best_channel.
SpecScore == InitScore /\ [][NextScore]_vars

\* Inputs of _calculate_priority: confidence_score in hundredths, or absent.
NoConfidence == -1
ConfidenceStep == 7
PriorityConfidences ==
  {c \in 0..100 : c % ConfidenceStep = 0} \cup {100, NoConfidence}
PriorityCategories ==
  {"technology", "beauty", "gaming", "fashion", "food", "unknown"}
PriorityContentTypes ==
  {"review", "unboxing", "comparison", "tutorial", "haul", "unknown"}

category_boost(category) ==
  CASE category = "technology" -> 10
    [] category = "beauty"     -> 8
    [] category = "gaming"     -> 7
    [] category = "fashion"    -> 6
    [] category = "food"       -> 5
    [] OTHER                   -> 0

content_boost(content_type) ==
  CASE content_type = "review"     -> 10
    [] content_type = "unboxing"   -> 8
    [] content_type = "comparison" -> 7
    [] content_type = "tutorial"   -> 5
    [] content_type = "haul"       -> 4
    [] OTHER                       -> 0

\* int(confidence * 20) for a confidence given in hundredths: int() drops the
\* fraction.
IntTimes20(confidence) == (confidence * 20) \div 100

\* _calculate_priority: base 50, the confidence boost (0.5 when the key is
\* absent), the two table boosts, capped at 100.
calculate_priority(analysis_results) ==
  LET confidence == IF analysis_results.confidence = NoConfidence THEN 50
                    ELSE analysis_results.confidence
  IN Min(100, 50 + IntTimes20(confidence)
                + category_boost(analysis_results.category)
                + content_boost(analysis_results.content_type))

CalculatePriority(analysis_results) ==
  /\ priority_call' = [analysis_results |-> analysis_results,
                       result |-> calculate_priority(analysis_results)]
  /\ UNCHANGED <<channel_table, analysis, best, channel_scores,
                 queue_vars, pipeline_vars, shell_vars>>

NextPriority ==
  \E category \in PriorityCategories, content_type \in PriorityContentTypes,
     confidence \in PriorityConfidences :
    CalculatePriority([category |-> category, content_type |-> content_type,
                       confidence |-> confidence])

\* The priority specification: _calculate_priority on every analysis result.
SpecPriority == Init /\ [][NextPriority]_vars

\* ------------------------------------------- listing and maintenance

\* The lists a sort can produce: every arrangement of the rows S in which no
\* row stands behind one it is strictly ahead of; ahead is the set of pairs
\* <<a, b>> with a ahead of b.
SortedLists(S, ahead) ==
  {s \in [1..Cardinality(S) -> S] :
     /\ \A i, j \in 1..Cardinality(S) : i # j => s[i] # s[j]
     /\ \A i, j \in 1..Cardinality(S) : i < j => <<s[j], s[i]>> \notin ahead}

\* items[:n] and items[n:]
Take(items, n) == SubSeq(items, 1, Min(n, Len(items)))
Drop(items, n) == SubSeq(items, n + 1, Len(items))

\* [i for i in items if i.get('channel_id') == channel_id], when channel_id
\* is given.
ChannelFilter(items, channel_id) ==
  IF channel_id = Null THEN items
  ELSE SelectSeq(items, LAMBDA k : upload_queue[k].channel_id = channel_id)

\* ORDER BY priority DESC of the REST listing.
RestAhead ==
  {<<a, b>> \in Keys \X Keys : upload_queue[a].priority > upload_queue[b].priority}

\* The stable sort by (-priority, created_at) of the dict in insertion order.
MemAhead ==
  {<<a, b>> \in Keys \X Keys : Before(a, b) \/ (~Before(b, a) /\ a < b)}

\* DatabaseManager.get_queue_items(status, limit): the lists (of store keys)
\* it can return.
DbGetQueueItems(status, limit) ==
  CASE backend = "pg"   -> {<<>>}
    [] backend = "rest" ->
         {Take(items, limit) : items \in SortedLists(Filtered(status), RestAhead)}
    [] backend = "mem"  ->
         {Take(items, limit) : items \in SortedLists(Filtered(status), MemAhead)}

\* The CASE q.status ... END of the ORDER BY of get_queue_status.
StatusRank(status) ==
  CASE status = "processing" -> 1
    [] status = "ready"      -> 2
    [] status = "pending"    -> 3
    [] status = "failed"     -> 4
    [] status = "uploaded"   -> 5

\* ORDER BY status rank, q.priority DESC, q.created_at DESC
SqlStatusAhead ==
  {<<a, b>> \in Keys \X Keys :
     LET ra == StatusRank(upload_queue[a].status)
         rb == StatusRank(upload_queue[b].status)
     IN \/ ra < rb
        \/ /\ ra = rb
           /\ \/ upload_queue[a].priority > upload_queue[b].priority
              \/ /\ upload_queue[a].priority = upload_queue[b].priority
                 /\ upload_queue[a].created_at > upload_queue[b].created_at}

\* QueueManager.get_queue_status(status_filter, channel_id, limit): the lists
\* it can return.  Without a DSN: get_queue_items, then the channel filter;
\* with one: the filtered, ordered and limited SELECT.
GetQueueStatus(status_filter, channel_id, limit) ==
  IF backend = "pg"
  THEN {Take(items, limit) :
          items \in SortedLists(
            {k \in Filtered(status_filter) :
               channel_id = Null \/ upload_queue[k].channel_id = channel_id},
            SqlStatusAhead)}
  ELSE {ChannelFilter(items, channel_id) :
          items \in DbGetQueueItems(status_filter, limit)}

ListCall(op, status, channel_id, limit, offset, items) ==
  [op |-> op, status |-> status, channel_id |-> channel_id, limit |-> limit,
   offset |-> offset, items |-> items]

\* GET /api/queue/ (routes/queue.py list_queue_items): get_queue_items with
\* the limit, then the channel filter, then the offset.
ListQueueItems(status, channel_id, limit, offset) ==
  /\ \E items \in DbGetQueueItems(status, limit) :
       last_call' = ListCall("list_queue_items", status, channel_id, limit, offset,
                             Drop(ChannelFilter(items, channel_id), offset))
  /\ UNCHANGED <<backend, upload_queue, channel_uploads, upload_history, now,
                 pc, entry, cur, bg_tasks, claims>>

\* QueueManager.get_queue_status called for its result.
QueueStatus(status_filter, channel_id, limit) ==
  /\ \E items \in GetQueueStatus(status_filter, channel_id, limit) :
       last_call' = ListCall("get_queue_status", status_filter, channel_id, limit, 0,
                             items)
  /\ UNCHANGED <<backend, upload_queue, channel_uploads, upload_history, now,
                 pc, entry, cur, bg_tasks, claims>>

\* The limit reprocess_failed passes to get_queue_status (10 in the code).
ReprocessLimit == 1

\* The loop of reprocess_failed over failed_entries: retry_failed(entry['id'])
\* for each one.  The entries are different rows and each update_status writes
\* one row, so the queue after the loop carries each call's write.
RetryAll(items) ==
  [k \in Keys |->
     LET writers == {i \in 1..Len(items) :
                       UpdateStatusResult(upload_queue[items[i]].id, "pending",
                                          Null)[1][k] # upload_queue[k]}
     IN IF writers = {} THEN upload_queue[k]
        ELSE UpdateStatusResult(upload_queue[items[CHOOSE i \in writers : TRUE]].id,
                                "pending", Null)[1][k]]

SweepCall(op, days, count) == [op |-> op, days |-> days, count |-> count]

\* VideoProcessor.reprocess_failed: get_queue_status(status_filter='failed',
\* limit=10), retry_failed on every entry, the number of entries returned.
ReprocessFailed ==
  /\ \E items \in GetQueueStatus("failed", Null, ReprocessLimit) :
       /\ upload_queue' = RetryAll(items)
       /\ claims' = ClaimsAfter(RetryAll(items), 0)
       /\ last_call' = SweepCall("reprocess_failed", 0, Len(items))
  /\ UNCHANGED <<backend, channel_uploads, upload_history, now,
                 pc, entry, cur, bg_tasks>>

\* The rows of DELETE ... WHERE status IN ('uploaded', 'failed')
\*   AND updated_at < NOW() - INTERVAL 'days days'
Deleted(days) ==
  {k \in Keys : /\ upload_queue[k].status \in {"uploaded", "failed"}
                /\ upload_queue[k].updated_at < now - days}

\* upload_history.queue_id REFERENCES upload_queue(id) ON DELETE SET NULL:
\* the history after the rows with these ids are deleted (NoEntry is NULL).
OnDeleteSetNull(ids) ==
  [i \in DOMAIN upload_history |->
     IF upload_history[i].queue_id \in ids
     THEN [upload_history[i] EXCEPT !.queue_id = NoEntry]
     ELSE upload_history[i]]

\* QueueManager.clean_old_entries(days): the DELETE through execute_query,
\* which runs it when there is a DSN and otherwise returns rowcount 0.
CleanOldEntries(days) ==
  /\ IF backend = "pg"
     THEN /\ upload_queue' = [k \in Keys \ Deleted(days) |-> upload_queue[k]]
          /\ claims' = [k \in Keys \ Deleted(days) |-> claims[k]]
          /\ upload_history' =
               OnDeleteSetNull({upload_queue[k].id : k \in Deleted(days)})
          /\ last_call' = SweepCall("clean_old_entries", days, Cardinality(Deleted(days)))
     ELSE /\ UNCHANGED <<upload_queue, claims, upload_history>>
          /\ last_call' = SweepCall("clean_old_entries", days, 0)
  /\ UNCHANGED <<backend, channel_uploads, now, pc, entry, cur, bg_tasks>>

RetentionDays == {0, 1}

\* The maintenance specification: items are created and moved through their
\* statuses while the two sweeps run.
NextMaint ==
  \/ \E p \in Priorities :
       QM_AddToQueue(50, "chA", "t", "d", p, NoTime) /\ UNCHANGED off_queue_vars
  \/ \E p \in Priorities :
       Route_AddToQueue(50, "chA", "t", "d", p, NoTime) /\ UNCHANGED off_queue_vars
  \/ Tick /\ UNCHANGED off_queue_vars
  \/ \E id \in ItemIds, s \in Statuses :
       UpdateStatus(id, s, Null) /\ UNCHANGED off_queue_vars
  \/ ReprocessFailed /\ UNCHANGED off_queue_vars
  \/ \E days \in RetentionDays : CleanOldEntries(days) /\ UNCHANGED off_queue_vars

SpecMaint == Init /\ [][NextMaint]_vars

\* The history specification: items are created, taken to ready and marked
\* uploaded, the clock advances and the purge runs.
NextHistory ==
  \/ CreateDefault /\ UNCHANGED off_queue_vars
  \/ Tick /\ UNCHANGED off_queue_vars
  \/ \E id \in ItemIds, s \in {"processing", "ready"} :
       UpdateStatus(id, s, Null) /\ UNCHANGED off_queue_vars
  \/ \E id \in ItemIds, f \in Faults : MarkAsUploaded(id, f) /\ UNCHANGED off_queue_vars
  \/ \E days \in RetentionDays : CleanOldEntries(days) /\ UNCHANGED off_queue_vars

SpecHistory == Init /\ [][NextHistory]_vars

\* The quota specification: items of the active channel are created, one
\* worker loop claims them and takes them to ready, and the publisher marks
\* them uploaded.
NextQuota ==
  \/ QM_AddToQueue(50, "chA", "t", "d", 50, NoTime) /\ UNCHANGED off_queue_vars
  \/ \E w \in {"w1"} :
       \/ GetNextVideoMem(w) /\ UNCHANGED off_queue_vars
       \/ GetNextVideoSelect(w) /\ UNCHANGED off_queue_vars
       \/ GetNextVideoUpdateRest(w) /\ UNCHANGED off_queue_vars
       \/ UpdateStatusRead(w) /\ UNCHANGED off_queue_vars
       \/ UpdateStatusWrite(w) /\ UNCHANGED off_queue_vars
       \/ SimulateUploadMem(w) /\ UNCHANGED off_queue_vars
  \/ \E id \in ItemIds, f \in Faults : MarkAsUploaded(id, f) /\ UNCHANGED off_queue_vars

SpecQuota == Init /\ [][NextQuota]_vars

\* The requests of the listing specification.
MaxLimit == 2
ListStatuses == {Null, "pending"}
ListChannels == {Null, "chB"}

\* The listing specification: items of both channels and priorities are
\* created and claimed while the two list operations are called.
NextList ==
  \/ \E c \in ChannelIds, p \in Priorities :
       QM_AddToQueue(50, c, "t", "d", p, NoTime) /\ UNCHANGED off_queue_vars
  \/ \E c \in ChannelIds, p \in Priorities :
       Route_AddToQueue(50, c, "t", "d", p, NoTime) /\ UNCHANGED off_queue_vars
  \/ Tick /\ UNCHANGED off_queue_vars
  \/ \E id \in ItemIds : UpdateStatus(id, "processing", Null) /\ UNCHANGED off_queue_vars
  \/ \E status \in ListStatuses, c \in ListChannels, limit \in 1..MaxLimit,
        offset \in 0..1 :
       ListQueueItems(status, c, limit, offset) /\ UNCHANGED off_queue_vars
  \/ \E status \in ListStatuses, c \in ListChannels, limit \in 1..MaxLimit :
       QueueStatus(status, c, limit) /\ UNCHANGED off_queue_vars

SpecList == Init /\ [][NextList]_vars

\* ----------------------------------------------------------- dispatch

\* The dispatch specification: items with an active, an inactive or no
\* channel are created and reassigned while one worker loop and the
\* operator's process request move them to processing.
NextDispatch ==
  \/ \E c \in ChannelIds \cup {Null} :
       QM_AddToQueue(50, c, "t", "d", 50, NoTime) /\ UNCHANGED off_queue_vars
  \/ \E c \in ChannelIds \cup {Null} :
       Route_AddToQueue(50, c, "t", "d", 50, NoTime) /\ UNCHANGED off_queue_vars
  \/ \E id \in ItemIds, c \in ChannelIds, keep \in BOOLEAN :
       AssignQueueItem(id, c, keep) /\ UNCHANGED off_queue_vars
  \/ \E id \in ItemIds : ProcessQueueItem(id) /\ UNCHANGED off_queue_vars
  \/ \E id \in ItemIds : SimulateAndMarkReady(id) /\ UNCHANGED off_queue_vars
  \/ \E w \in {"w1"} :
       \/ GetNextVideoMem(w) /\ UNCHANGED off_queue_vars
       \/ GetNextVideoSelect(w) /\ UNCHANGED off_queue_vars
       \/ GetNextVideoUpdateRest(w) /\ UNCHANGED off_queue_vars
       \/ UpdateStatusRead(w) /\ UNCHANGED off_queue_vars
       \/ UpdateStatusWrite(w) /\ UNCHANGED off_queue_vars
       \/ SimulateUploadMem(w) /\ UNCHANGED off_queue_vars

SpecDispatch == Init /\ [][NextDispatch]_vars

\* ------------------------------------------- the maintenance loop

EntryPoints == {"main_app", "main"}

\* The retention clean_old_entries is called with: 30 days in the code, here
\* every row last updated before the current clock value.
MaintRetention == 0

\* UGCVideoManager.start of src/main_app.py sets self.running and creates the
\* maintenance task; start_services of main.py creates it with the shutdown
\* event clear.  The task runs to the loop test.
StartServices(e) ==
  /\ app = Null
  /\ app' = e
  /\ running' = TRUE
  /\ maint_pc' = "test"
  /\ UNCHANGED <<iteration, last_iteration>>

\* stop() of main_app clears self.running and cancels every task, which ends
\* the maintenance task at its await; shutdown() of main.py sets the event,
\* which the loop reads at its next test.
StopServices ==
  /\ running
  /\ running' = FALSE
  /\ maint_pc' = IF app = "main_app" THEN "cancelled" ELSE maint_pc
  /\ UNCHANGED <<app, iteration, last_iteration>>

\* while self.running / while not self.shutdown_event.is_set()
MaintTest ==
  /\ maint_pc = "test"
  /\ maint_pc' = IF running THEN "sleep" ELSE "exited"
  /\ UNCHANGED <<app, running, iteration, last_iteration>>

\* The sleep at the head of the pass returns: main_app goes on to
\* clean_old_entries, main.py to reprocess_failed.
MaintWake ==
  /\ maint_pc = "sleep"
  /\ maint_pc' = IF app = "main_app" THEN "purge" ELSE "sweep"
  /\ iteration' = NoIteration
  /\ UNCHANGED <<app, running, last_iteration>>

\* await queue_manager.clean_old_entries(30) in main_app: the call deletes, or
\* fails inside its own try and returns 0; either way the pass goes on to the
\* retry sweep.
MaintPurge(fails) ==
  /\ maint_pc = "purge"
  /\ IF fails THEN UNCHANGED queue_vars ELSE CleanOldEntries(MaintRetention)
  /\ maint_pc' = "sweep"
  /\ iteration' = [iteration EXCEPT !.purge = IF fails THEN "failed" ELSE "ok"]
  /\ UNCHANGED <<app, running, last_iteration>>

\* await reprocess_failed(): the sweep retries, or fails inside its own try and
\* returns 0; the pass is complete and the loop is back at its test.
MaintSweep(fails) ==
  /\ maint_pc = "sweep"
  /\ IF fails THEN UNCHANGED queue_vars ELSE ReprocessFailed
  /\ maint_pc' = "test"
  /\ iteration' = NoIteration
  /\ last_iteration' =
       [ran |-> [iteration EXCEPT !.sweep = IF fails THEN "failed" ELSE "ok"],
        parity |-> 1 - last_iteration.parity]
  /\ UNCHANGED <<app, running>>

\* The steps of the maintenance task.
MaintStep ==
  \/ MaintTest /\ UNCHANGED <<queue_vars, pipeline_vars, matcher_vars, watcher_vars>>
  \/ MaintWake /\ UNCHANGED <<queue_vars, pipeline_vars, matcher_vars, watcher_vars>>
  \/ \E fails \in BOOLEAN :
       MaintPurge(fails) /\ UNCHANGED <<pipeline_vars, matcher_vars, watcher_vars>>
  \/ \E fails \in BOOLEAN :
       MaintSweep(fails) /\ UNCHANGED <<pipeline_vars, matcher_vars, watcher_vars>>

NextSweeper ==
  \/ \E e \in EntryPoints :
       StartServices(e) /\ UNCHANGED <<queue_vars, pipeline_vars, matcher_vars, watcher_vars>>
  \/ StopServices /\ UNCHANGED <<queue_vars, pipeline_vars, matcher_vars, watcher_vars>>
  \/ MaintStep
  \/ QM_AddToQueue(50, "chA", "t", "d", 50, NoTime) /\ UNCHANGED off_queue_vars
  \/ Tick /\ UNCHANGED off_queue_vars
  \/ \E id \in ItemIds : UpdateStatus(id, "failed", Null) /\ UNCHANGED off_queue_vars

\* The maintenance specification: the event loop runs the maintenance task
\* whenever it is ready (its sleep returns, its awaits complete), while items
\* are created, fail and age.
SpecSweeper == Init /\ [][NextSweeper]_vars /\ WF_vars(MaintStep)

\* ------------------------------------------------- the folder watcher

\* _calculate_file_hash of the watcher (SHA-256 of the content) and
\* _get_file_hash of the pipeline (MD5 of name, size and mtime): the two files
\* differ in both.
FileHash(p) == IF p = "p1" THEN "F" ELSE "G"

\* The calls of watcher.process_video that have not returned, for path p.
RunningFor(p) == {t \in Tasks : watch_pc[t] # "idle" /\ watch_path[t] = p}

\* A file appears in the watch folder, or a file that was too small grows as
\* its writer goes on.
WriteFile(p, size) ==
  /\ \/ file_size[p] = Missing
     \/ file_size[p] < min_file_size_mb /\ size > file_size[p]
  /\ file_size' = [file_size EXCEPT ![p] = size]
  /\ UNCHANGED <<processing_files, processed_files, watch_pc, watch_path,
                 pipeline_calls, queued>>

\* _handle_video_file for a created or modified event on path p (a video file
\* in a date folder): skipped when p is in processing_files; otherwise p is
\* added and asyncio.create_task schedules watcher.process_video, which
\* raises RuntimeError when the calling thread has no running event loop
\* (scheduled = FALSE), leaving p in the set with no run.
HandleVideoFile(t, p, scheduled) ==
  /\ p \notin processing_files
  /\ watch_pc[t] = "idle"
  /\ processing_files' = processing_files \cup {p}
  /\ IF scheduled
     THEN /\ watch_pc' = [watch_pc EXCEPT ![t] = "start"]
          /\ watch_path' = [watch_path EXCEPT ![t] = p]
     ELSE UNCHANGED <<watch_pc, watch_path>>
  /\ UNCHANGED <<file_size, processed_files, pipeline_calls, queued>>

\* The body of the loop of scan_directory (and of _process_existing_files of
\* VideoWatcher) for a file p the directory lists: a file whose hash is not in
\* processed_files is given to watcher.process_video.
ScanFile(t, p) ==
  /\ file_size[p] # Missing
  /\ FileHash(p) \notin processed_files
  /\ watch_pc[t] = "idle"
  /\ watch_pc' = [watch_pc EXCEPT ![t] = "start"]
  /\ watch_path' = [watch_path EXCEPT ![t] = p]
  /\ UNCHANGED <<file_size, processing_files, processed_files, pipeline_calls,
                 queued>>

\* The except clause of watcher.process_video: the path is removed from
\* processing_files.
WatchRaise(t) ==
  /\ processing_files' = processing_files \ {watch_path[t]}
  /\ watch_pc' = [watch_pc EXCEPT ![t] = "idle"]
  /\ watch_path' = [watch_path EXCEPT ![t] = Null]

\* A plain return of watcher.process_video.
WatchReturn(t) ==
  /\ watch_pc' = [watch_pc EXCEPT ![t] = "idle"]
  /\ watch_path' = [watch_path EXCEPT ![t] = Null]
  /\ UNCHANGED processing_files

\* watcher.process_video up to its first await: stat() raises for a missing
\* file; a file under the minimum or over the maximum size returns; otherwise
\* _wait_for_file_ready is awaited.
WatchStart(t) ==
  /\ watch_pc[t] = "start"
  /\ LET size == file_size[watch_path[t]]
     IN IF size = Missing THEN WatchRaise(t)
        ELSE IF size < min_file_size_mb \/ size > max_file_size_mb
        THEN WatchReturn(t)
        ELSE /\ watch_pc' = [watch_pc EXCEPT ![t] = "wait"]
             /\ UNCHANGED <<processing_files, watch_path>>
  /\ UNCHANGED <<file_size, processed_files, pipeline_calls, queued>>

\* _wait_for_file_ready has returned: the hash is computed and looked up in
\* processed_files; a known hash returns, a new one goes through
\* _create_queue_entry to VideoProcessor.process_video, which runs to its
\* first await.
WatchReady(t) ==
  /\ watch_pc[t] = "wait"
  /\ LET h == FileHash(watch_path[t])
     IN IF h \in processed_files
        THEN /\ WatchReturn(t)
             /\ UNCHANGED <<pipeline_calls, pipeline_vars, queue_vars>>
        ELSE /\ watch_pc' = [watch_pc EXCEPT ![t] = "pipeline"]
             /\ pipeline_calls' = [pipeline_calls EXCEPT ![h] = @ + 1]
             /\ ProcessVideoStart(t, h)
             /\ UNCHANGED <<processing_files, watch_path>>
  /\ UNCHANGED <<file_size, processed_files, queued>>

\* VideoProcessor.process_video has returned to _create_queue_entry, which
\* logs the result (or the exception) and returns nothing: the hash is added
\* to processed_files and the path removed from processing_files.
WatchDone(t) ==
  /\ watch_pc[t] = "pipeline"
  /\ task_pc[t] = "idle"
  /\ LET h == FileHash(watch_path[t])
     IN /\ processed_files' = processed_files \cup {h}
        /\ queued' = IF result[t] = "success" THEN queued \cup {h} ELSE queued
  /\ processing_files' = processing_files \ {watch_path[t]}
  /\ watch_pc' = [watch_pc EXCEPT ![t] = "idle"]
  /\ watch_path' = [watch_path EXCEPT ![t] = Null]
  /\ UNCHANGED <<file_size, pipeline_calls>>

\* The frame of a watcher step that stays inside the watcher.
WatcherOnly == UNCHANGED <<queue_vars, pipeline_vars, matcher_vars, maint_vars>>

\* The frame of a pipeline step of a run the watcher started.
PipelineOnly == UNCHANGED <<matcher_vars, shell_vars>>

\* The watcher specification: files appear and grow, events and scans
\* concerning them interleave, and each run goes through the pipeline.
NextWatcher ==
  \/ \E p \in Paths, size \in FileSizes : WriteFile(p, size) /\ WatcherOnly
  \/ \E t \in Tasks, p \in Paths, scheduled \in BOOLEAN :
       HandleVideoFile(t, p, scheduled) /\ WatcherOnly
  \/ \E t \in Tasks, p \in Paths : ScanFile(t, p) /\ WatcherOnly
  \/ \E t \in Tasks : WatchStart(t) /\ WatcherOnly
  \/ \E t \in Tasks : WatchReady(t) /\ UNCHANGED <<matcher_vars, maint_vars>>
  \/ \E t \in Tasks : WatchDone(t) /\ WatcherOnly
  \/ \E t \in Tasks, raises \in BOOLEAN, a \in AnalysisResults :
       AnalyzeVideo(t, raises, a) /\ PipelineOnly
  \/ \E t \in Tasks : CheckConfidence(t) /\ PipelineOnly
  \/ \E t \in Tasks, hint \in {Null, "chA"}, c \in ChannelIds \cup {Null} :
       MatchChannel(t, hint, c) /\ PipelineOnly
  \/ \E t \in Tasks, o \in {"ok", "raise"} : GenerateContent(t, o) /\ PipelineOnly
  \/ \E t \in Tasks :
       EnqueueVideo(t, file_size[watch_path[t]], 50) /\ PipelineOnly

SpecWatcher == Init /\ [][NextWatcher]_vars

\* --------------------------------------------- the status lookup by scan
\* The limit of the listing that _get_current_status scans when there is no
\* DSN: limit=100 in the source, scaled to the size of the modelled queue.
StatusScanLimit == 1

\* The for loop of _get_current_status over one listing: the status of the
\* first record whose 'id' equals id, or Null when the loop ends.
ScanForStatus(id, items) ==
  LET hits == {i \in 1..Len(items) : upload_queue[items[i]].id = id}
  IN IF hits = {} THEN Null
     ELSE upload_queue[items[CHOOSE i \in hits : \A j \in hits : i <= j]].status

\* QueueManager._get_current_status with the listing it reads: the statuses
\* it can return.  pg: SELECT by id.  rest/mem: the scan of
\* get_queue_items(limit=StatusScanLimit).
GetCurrentStatusScan(id) ==
  IF backend = "pg" THEN {GetCurrentStatus(id)}
  ELSE {ScanForStatus(id, items) :
          items \in DbGetQueueItems(Null, StatusScanLimit)}

\* QueueManager.update_status(queue_id, new_status, error_message) on a queue
\* that can hold more items than the listing returns.
UpdateStatusScan(id, new_status, error_message) ==
  /\ \E current \in GetCurrentStatusScan(id) :
       LET ok == IF current = Null THEN FALSE
                 ELSE TransitionAccepted(current, new_status)
           newq == IF ok THEN StatusWrite(id, new_status, error_message)
                   ELSE upload_queue
       IN /\ upload_queue' = newq
          /\ claims' = ClaimsAfter(newq, 0)
          /\ last_call' = Call("update_status", id, new_status, ok)
  /\ UNCHANGED <<backend, channel_uploads, upload_history, now,
                 pc, entry, cur, bg_tasks>>

ScanStatuses == {"processing", "failed"}

\* The scan specification: items of both priorities are created and
\* update_status is called on them while the queue outgrows the listing.
NextScan ==
  \/ \E c \in ChannelIds, p \in Priorities :
       QM_AddToQueue(50, c, "t", "d", p, NoTime) /\ UNCHANGED off_queue_vars
  \/ Tick /\ UNCHANGED off_queue_vars
  \/ \E id \in ItemIds, s \in ScanStatuses :
       UpdateStatusScan(id, s, Null) /\ UNCHANGED off_queue_vars

SpecScan == Init /\ [][NextScan]_vars

\* ------------------------------------------------------------------ claims

\* A step in which worker w's get_next_video selects its entry, and the
\* store key of the entry selected.
Selects(w) == pc[w] = "idle" /\ pc'[w] # "idle"
Chosen(w) == KeyOfId(entry'[w])

\* Claim-level eligibility of a pending item: schedule time unset or past,
\* channel active and under its daily quota.
Eligible(k) ==
  /\ upload_queue[k].status = "pending"
  /\ upload_queue[k].scheduled_time = NoTime \/ upload_queue[k].scheduled_time <= now
  /\ upload_queue[k].channel_id \in ChannelIds
  /\ youtube_channels[upload_queue[k].channel_id].is_active
  /\ channel_uploads[upload_queue[k].channel_id]
       < youtube_channels[upload_queue[k].channel_id].max_daily_uploads

\* C1: no queue item is returned by get_next_video to two callers, or twice
\* to one caller, unless it was moved back to pending in between, in every
\* backend.
C1_NoDoubleClaim == \A k \in Keys : claims[k] <= 1

\* C2: every get_next_video call takes the eligible pending item of highest
\* priority and, within that priority, of earliest created_at, in every
\* backend: no eligible item is strictly ahead of the one selected.
C2_ClaimOrder ==
  [][\A w \in Workers :
       Selects(w) => \A j \in Keys : Eligible(j) => ~Before(j, Chosen(w))]_vars

\* C3: update_status changes an item only for a pair of the transition table;
\* for every other pair, a same-status call included, and for an unknown id
\* it returns False and leaves the queue unchanged.
C3_OnlyTableTransitions ==
  [][last_call'.op = "update_status" =>
       LET from == GetCurrentStatus(last_call'.id) IN
       (from = Null \/ last_call'.status \notin status_transitions[from])
         => (~last_call'.ok /\ upload_queue' = upload_queue)]_vars

\* C4: mark_as_uploaded is all-or-nothing: a call, faulted or not, leaves
\* either the item uploaded with one more history record and the channel's
\* count one higher, or queue, history and counts as they were.
C4_MarkAllOrNothing ==
  [][last_call'.op = "mark_as_uploaded" =>
       LET k == KeyOfId(last_call'.id)
           c == upload_queue[k].channel_id
       IN \/ /\ upload_queue'[k].status = "uploaded"
             /\ Len(upload_history') = Len(upload_history) + 1
             /\ channel_uploads'[c] = channel_uploads[c] + 1
          \/ UNCHANGED <<upload_queue, upload_history, channel_uploads>>]_vars

\* C5: in every reachable state the upload count of a channel is at most the
\* channel's max_daily_uploads.
C5_CountWithinCapacity ==
  \A c \in ChannelIds : channel_uploads[c] <= youtube_channels[c].max_daily_uploads

\* C6: get_next_video never selects an item whose channel's count of today
\* has reached max_daily_uploads, in every backend.
C6_NoClaimAtCapacity ==
  [][\A w \in Workers :
       Selects(w) =>
         LET c == upload_queue[Chosen(w)].channel_id IN
         c \in ChannelIds =>
           channel_uploads[c] < youtube_channels[c].max_daily_uploads]_vars

\* C7: get_next_video never selects, and nothing moves to processing, an item
\* whose scheduled_time is set and still in the future.
C7_NotBeforeSchedule ==
  [][/\ \A w \in Workers :
          Selects(w) => upload_queue[Chosen(w)].scheduled_time <= now
     /\ \A k \in Keys :
          (upload_queue[k].status = "pending" /\ upload_queue'[k].status = "processing")
            => upload_queue[k].scheduled_time <= now]_vars

HistoryCount(id) ==
  Cardinality({i \in 1..Len(upload_history) : upload_history[i].queue_id = id})

\* C8: the number of upload_history records of an item is 1 when the item is
\* uploaded and 0 otherwise.
C8_OneHistoryPerUploaded ==
  \A k \in Keys :
     HistoryCount(upload_queue[k].id)
       = IF upload_queue[k].status = "uploaded" THEN 1 ELSE 0

\* C9: uploaded is terminal: an item whose status is uploaded keeps it in
\* every step.
C9_UploadedTerminal ==
  [][\A k \in Keys :
       upload_queue[k].status = "uploaded" => upload_queue'[k].status = "uploaded"]_vars

\* C10: PATCH /api/queue/{id} never changes an item's status, and a request
\* that carries a status field is rejected and changes nothing.
C10_PatchKeepsStatus ==
  [][last_call'.op = "patch" =>
       /\ \A k \in Keys : upload_queue'[k].status = upload_queue[k].status
       /\ last_call'.status # Null =>
            (~last_call'.ok /\ upload_queue' = upload_queue)]_vars

\* The process_video calls in progress on fingerprint h.
Running(h) == {t \in Tasks : task_pc[t] # "idle" /\ video_hash[t] = h}

\* C11: at most one process_video run per fingerprint is in progress at any
\* instant: every call made while a run of the fingerprint is in progress
\* returns "Already processing" without starting one.
C11_OneRunPerFingerprint == \A h \in Fingerprints : Cardinality(Running(h)) <= 1

\* C12: the in-flight set never leaks: whenever no process_video call is in
\* progress, processing_cache is empty (and a fingerprint in the cache always
\* has a call in progress).
C12_CacheNeverLeaks == \A h \in processing_cache : Running(h) # {}

\* C12 witness: every call has returned, among them one through an exception
\* or with no channel and one that enqueued.
C12_Witness ==
  /\ \A t \in Tasks : task_pc[t] = "idle"
  /\ \E t1, t2 \in Tasks :
       /\ result[t1] \in {"exception", "No channel available"}
       /\ result[t2] = "success"

\* C13: every item that get_next_video returned is eventually uploaded or
\* failed: no claimed item stays pending, processing or ready for ever.
C13_ClaimSettles ==
  \A k \in 1..MaxItems :
     (k \in Keys /\ claims[k] >= 1)
       ~> (k \in Keys /\ upload_queue[k].status \in {"uploaded", "failed"})

\* C14: no starvation: every eligible pending item is eventually returned by
\* get_next_video.
C14_NoStarvation ==
  \A k \in 1..MaxItems :
     (k \in Keys /\ Eligible(k)) ~> (k \in Keys /\ claims[k] >= 1)

\* C15: no persisted item has a file size outside [min_file_size_mb,
\* max_file_size_mb] or an empty title or description, whichever path
\* created it.
C15_OnlyValidItems ==
  \A k \in Keys :
     /\ upload_queue[k].file_size_mb >= min_file_size_mb
     /\ upload_queue[k].file_size_mb <= max_file_size_mb
     /\ upload_queue[k].title # ""
     /\ upload_queue[k].description # ""

\* C16: the id returned by QueueManager.add_to_queue (the record's 'id') is
\* the id the item is stored under: an update_status(id, new_status) call
\* that returns True leaves the stored item with status new_status.
C16_IdRoundTrip ==
  [][(last_call'.op = "update_status" /\ last_call'.ok) =>
       \A k \in RowsById(last_call'.id) :
          upload_queue'[k].status = last_call'.status]_vars

\* C17: every item of the queue stays queryable by id: GET /api/queue/{id}
\* for the id of a stored item returns the item, never NotFound.
C17_ItemQueryable ==
  [][(last_call'.op = "get" /\ last_call'.id \in ItemIds) => last_call'.ok]_vars

\* A find_best_channel call has returned.
Called == analysis # NoAnalysis

\* C18: find_best_channel never returns a channel that is inactive or whose
\* count of today has reached max_daily_uploads (so it returns None when no
\* channel has capacity left), in every backend.
C18_BestIsAvailable ==
  (Called /\ best # Null) =>
     /\ channel_table[best].is_active
     /\ channel_uploads[best] < channel_table[best].max_daily_uploads

\* The score of channel c for the last call as the documentation states it:
\* category score + content-type weight + capacity bonus min(0.5, remaining
\* * 0.1) + 0.3 for a main channel or 0.1 otherwise, times the confidence.
C19_Score(c) ==
  LET cat == channel_table[c].category
      category_score ==
        IF cat = analysis.category /\ cat \in category_mapping(analysis.category) THEN 100
        ELSE IF cat \in category_mapping(analysis.category) THEN 60
        ELSE IF cat \in {"general", "lifestyle", "misc"} THEN 30 ELSE 0
      remaining == channel_table[c].max_daily_uploads - channel_uploads[c]
  IN (category_score
        + content_type_weights(analysis.content_type, channel_table[c].channel_type)
        + (IF remaining * 10 < 50 THEN remaining * 10 ELSE 50)
        + (IF channel_table[c].channel_type = "main" THEN 30 ELSE 10))
       * analysis.confidence

C20_DeterministicTieBreak ==
  (Called /\ best # Null) =>
    \A c \in GetAvailableChannels :
      C19_Score(c) = C19_Score(best) =>
        LET main_c == channel_table[c].channel_type = "main"
            main_b == channel_table[best].channel_type = "main"
        IN /\ main_c => main_b
           /\ (main_c = main_b) => channel_uploads[best] <= channel_uploads[c]
           /\ (main_c = main_b /\ channel_uploads[best] = channel_uploads[c])
                => (best = "chA" \/ c = "chB")

\* The category component as documented: 1.0 for equal categories whatever
\* the string (case ignored), else 0.6 for a related one, else 0.3 for a
\* generic one, else 0.
C21_Category(c) ==
  LET cat == Lower(channel_table[c].category)
      vid == Lower(analysis.category)
  IN IF cat = vid THEN 100
     ELSE IF cat \in category_mapping(vid) THEN 60
     ELSE IF cat \in {"general", "lifestyle", "misc"} THEN 30
     ELSE 0

\* C21: the score _score_channels gives a listed channel has the documented
\* category component in it.
C21_CategoryComponent ==
  Called =>
    \A c \in DOMAIN channel_scores :
       channel_scores[c] =
         (C21_Category(c)
            + content_type_weights(analysis.content_type, channel_table[c].channel_type)
            + Min(50, (channel_table[c].max_daily_uploads - channel_uploads[c]) * 10)
            + (IF channel_table[c].channel_type = "main" THEN 30 ELSE 10))
           * analysis.confidence

\* The documented example: a technology video of confidence 0.8 and unknown
\* content type, channel A (technology, main, 3 a day, none used) and
\* channel B (lifestyle, sub, 3 a day, 2 used).
C22_Example ==
  /\ analysis = [category |-> "technology", content_type |-> "unknown", confidence |-> 8]
  /\ channel_table["chA"] = [channel_type |-> "main", category |-> "technology",
                             max_daily_uploads |-> 3, is_active |-> TRUE]
  /\ channel_table["chB"] = [channel_type |-> "sub", category |-> "lifestyle",
                             max_daily_uploads |-> 3, is_active |-> TRUE]
  /\ channel_uploads = [c \in ChannelIds |-> IF c = "chA" THEN 0 ELSE 2]

\* C22 (amended): in the example A scores (1.0 + 0.5 + 0.3 + 0.3) * 0.8 =
\* 1.68, B scores (0.3 + 0.5 + 0.1 + 0.1) * 0.8 = 0.8, and A is selected.
C22_ExampleScores ==
  C22_Example =>
    /\ channel_scores = [c \in ChannelIds |-> IF c = "chA" THEN 1680 ELSE 800]
    /\ best = "chA"

\* C22 as stated: A scores 1.664.
C22_ExampleAsStated ==
  C22_Example =>
    /\ channel_scores = [c \in ChannelIds |-> IF c = "chA" THEN 1664 ELSE 800]
    /\ best = "chA"

C22_Witness == C22_Example /\ best = "chA" /\ DOMAIN channel_scores = ChannelIds

\* round(confidence * 20) for a confidence in hundredths: the product is a
\* multiple of 0.2, so there is no half to break.
C23_Round20(confidence) == (confidence * 20 + 50) \div 100

\* C23: for a confidence in [0,1] _calculate_priority returns
\* min(100, 50 + round(confidence*20) + category bonus + content-type bonus),
\* an integer in [0,100].
C23_PriorityRubric ==
  LET a == priority_call.analysis_results
  IN (priority_call # NoPriorityCall /\ a.confidence # NoConfidence) =>
       /\ priority_call.result =
            Min(100, 50 + C23_Round20(a.confidence)
                      + category_boost(a.category) + content_boost(a.content_type))
       /\ priority_call.result \in 0..100

\* C24: process_video creates a queue item only for a channel that
\* assign_channel returned: no item is enqueued for a channel taken by another
\* route, the channel_hint included.
C24_ScorerAssignedOnly ==
  [][\A t \in Tasks :
       (task_pc[t] = "enqueue" /\ result'[t] = "success") => reason[t] = Null]_vars

\* C25: a call whose analysis is absent or of confidence below 0.3 leaves the
\* check with the low-confidence error and creates no queue item; it reaches
\* neither the scorer nor the metadata generator.
C25_LowConfidenceAborts ==
  [][\A t \in Tasks :
       (/\ task_pc[t] = "check"
        /\ task_pc'[t] # "check"
        /\ (~task_analysis[t].present \/ task_analysis[t].confidence_score < 3))
       => /\ task_pc'[t] = "idle"
          /\ result'[t] = "Low analysis confidence"
          /\ upload_queue' = upload_queue]_vars

\* C25 witness: a call returned the low-confidence error while another call,
\* whose confidence is at the threshold, went on to the scorer.
C25_Witness ==
  \E t1, t2 \in Tasks :
    /\ result[t1] = "Low analysis confidence" /\ task_pc[t1] = "idle"
    /\ task_pc[t2] = "match" /\ task_analysis[t2].confidence_score = 3

\* The failed items, and the ones a step moved from failed to pending.
C26_Failed == {k \in Keys : upload_queue[k].status = "failed"}
C26_Moved == {k \in C26_Failed : upload_queue'[k].status = "pending"}

\* C26: one sweep of reprocess_failed moves the oldest failed items by
\* updated_at to pending, as many as the limit allows, and leaves the other
\* failed items failed.
C26_SweepRetriesOldest ==
  [][last_call'.op = "reprocess_failed" =>
       /\ Cardinality(C26_Moved) = Min(ReprocessLimit, Cardinality(C26_Failed))
       /\ \A k \in C26_Moved, j \in C26_Failed \ C26_Moved :
            upload_queue[k].updated_at <= upload_queue[j].updated_at]_vars

\* C27: clean_old_entries(days) removes exactly the uploaded and failed items
\* whose updated_at is older than the cutoff, keeps every other item as it
\* was, and returns the number removed.
C27_CleanRemovesOld ==
  [][last_call'.op = "clean_old_entries" =>
       LET old == {k \in Keys : /\ upload_queue[k].status \in {"uploaded", "failed"}
                                /\ upload_queue[k].updated_at < now - last_call'.days}
       IN /\ DOMAIN upload_queue' = Keys \ old
          /\ \A k \in Keys \ old : upload_queue'[k] = upload_queue[k]
          /\ last_call'.count = Cardinality(old)]_vars

\* The items matching the filters of the last list call.
C28_Matching ==
  {k \in Keys :
     /\ last_call.status = Null \/ upload_queue[k].status = last_call.status
     /\ last_call.channel_id = Null \/ upload_queue[k].channel_id = last_call.channel_id}

\* C28: a list call returns the items at positions offset .. offset+limit-1 of
\* the matching items in the order of the claim comparator (priority
\* descending, created_at ascending).
C28_ListIsWindow ==
  last_call.op \in {"list_queue_items", "get_queue_status"} =>
    \E items \in SortedLists(C28_Matching,
                              {<<a, b>> \in Keys \X Keys : Before(a, b)}) :
       last_call.items = Take(Drop(items, last_call.offset), last_call.limit)

\* C29: no step moves an item from pending to processing while its channel_id
\* is null or names no active channel.
C29_DispatchNeedsChannel ==
  [][\A k \in Keys :
       (/\ k \in DOMAIN upload_queue'
        /\ upload_queue[k].status = "pending"
        /\ upload_queue'[k].status = "processing")
       => /\ upload_queue[k].channel_id \in ChannelIds
          /\ youtube_channels[upload_queue[k].channel_id].is_active]_vars

\* C30: a step gives an item a non-null error_message only when it moves the
\* item into failed.
C30_ErrorOnlyOnFailure ==
  [][\A k \in Keys :
       (/\ k \in DOMAIN upload_queue'
        /\ upload_queue'[k].error_message # Null
        /\ upload_queue'[k].error_message # upload_queue[k].error_message)
       => /\ upload_queue'[k].status = "failed"
          /\ upload_queue[k].status # "failed"]_vars
\* A completed pass of parity b in which a duty failed.
C31_FailedPass(b) ==
  /\ running
  /\ last_iteration.parity = b
  /\ "failed" \in {last_iteration.ran.purge, last_iteration.ran.sweep}

\* The maintenance loop outlives a failed pass: while the application runs, a
\* further pass completes.
C31_LoopSurvives ==
  \A b \in {0, 1} :
    C31_FailedPass(b) ~> (~running \/ last_iteration.parity # b)

\* C31: after a pass of the maintenance loop in which the purge or the retry
\* sweep failed, as long as the application is running a later pass runs both
\* duties, the purge and the retry sweep.
C31_BothDutiesAgain ==
  \A b \in {0, 1} :
    C31_FailedPass(b) ~>
      \/ ~running
      \/ /\ last_iteration.parity # b
         /\ last_iteration.ran.purge # "none"
         /\ last_iteration.ran.sweep # "none"

\* The same for the loop of src/main_app.py alone.
C31_MainAppBothDuties ==
  \A b \in {0, 1} :
    (app = "main_app" /\ C31_FailedPass(b)) ~>
      \/ ~running
      \/ /\ last_iteration.parity # b
         /\ last_iteration.ran.purge # "none"
         /\ last_iteration.ran.sweep # "none"

\* C32: process_video never raises to its caller: every call, whatever its
\* input and whatever fails, ends with a returned result (success False and an
\* error, or success).
C32_NeverRaises ==
  \A t \in Tasks : result[t] \in Outcomes \cup {Null}

\* C33: whatever the interleaving of created events, modified events and
\* directory scans, the watcher calls VideoProcessor.process_video at most
\* once for one file content.
C33_AtMostOnce ==
  \A h \in Fingerprints : pipeline_calls[h] <= 1

\* C39: when a call of the watcher's process_video returns (queued, too small,
\* too large, already processed or exception) and no other call for its path
\* is running, the path is not in handler.processing_files.
C39_NoLeak ==
  [][\A t \in Tasks :
       (/\ watch_pc[t] # "idle"
        /\ watch_pc'[t] = "idle"
        /\ RunningFor(watch_path[t]) = {t})
       => watch_path[t] \notin processing_files']_vars

C34_HistoryAppendOnly ==
  [][/\ Len(upload_history') >= Len(upload_history)
     /\ \A i \in 1..Len(upload_history) : upload_history'[i] = upload_history[i]]_vars

\* The items of channel c that are claimed and not yet uploaded.
C35_InFlight(c) ==
  {k \in Keys : /\ upload_queue[k].channel_id = c
                /\ upload_queue[k].status \in {"processing", "ready"}}

\* C35: the quota counter of a channel changes only in a mark_as_uploaded
\* step, by one, and never in a step of get_next_video (the claim), which is
\* where the quota is checked.
C35_CountedAtUploadOnly ==
  [][\A c \in ChannelIds :
       channel_uploads'[c] # channel_uploads[c]
       => /\ last_call'.op = "mark_as_uploaded"
          /\ channel_uploads'[c] = channel_uploads[c] + 1]_vars

\* Over-commit: under the store whose claim query checks the quota, more
\* items of one channel are in processing or ready than the channel has
\* capacity left for the day.
C35_OverCommit ==
  /\ backend = "pg"
  /\ \E c \in ChannelIds :
       Cardinality(C35_InFlight(c)) >
         youtube_channels[c].max_daily_uploads - channel_uploads[c]

\* C36: a mark_as_uploaded whose ready -> uploaded transition update_status
\* rejects (the item is pending, processing or failed, or the id is unknown)
\* inserts no history record, leaves the upload counts and returns False.
C36_RejectedMarkHasNoEffect ==
  [][(/\ last_call'.op = "mark_as_uploaded"
      /\ LET current == GetCurrentStatus(last_call'.id)
         IN current = Null \/ ~TransitionAccepted(current, "uploaded"))
     => /\ upload_history' = upload_history
        /\ channel_uploads' = channel_uploads
        /\ ~last_call'.ok]_vars

\* The history records of channel c, and the items of c that are uploaded.
C37_HistoryOf(c) ==
  {i \in 1..Len(upload_history) : upload_history[i].channel_id = c}

C37_UploadedOf(c) ==
  {k \in Keys : upload_queue[k].channel_id = c /\ upload_queue[k].status = "uploaded"}

\* C37: in every reachable state, for each channel, today's upload count
\* equals the number of upload history records of the channel, and each
\* equals the number of the channel's items that reached uploaded.
C37_Conservation ==
  \A c \in ChannelIds :
    /\ channel_uploads[c] = Cardinality(C37_HistoryOf(c))
    /\ channel_uploads[c] = Cardinality(C37_UploadedOf(c))


\* C38: update_status finds every existing item whatever the size of the
\* queue: a call on an item that is in the store, for a transition the table
\* accepts from the item's status, succeeds.
C38_FindsEveryItem ==
  [][(/\ last_call'.op = "update_status"
      /\ \E k \in Keys :
           /\ upload_queue[k].id = last_call'.id
           /\ TransitionAccepted(upload_queue[k].status, last_call'.status))
     => last_call'.ok]_vars

====
